---- MODULE Spec2Model ----
(***************************************************************************)
(* State-machine model of the prediction_market program                    *)
(* (programs/prediction-market/src/lib.rs).                                *)
(*                                                                         *)
(* Every instruction is one atomic action: account validation (the         *)
(* #[derive(Accounts)] constraints), the handler's require! checks in      *)
(* source order, the token transfer, the arithmetic and the writes.  An    *)
(* instruction that returns an error or panics is rolled back by the       *)
(* runtime, so a failed call is a stuttering step; what it returns is the  *)
(* value of the instruction's *_result operator in the state it is called  *)
(* in.                                                                     *)
(*                                                                         *)
(* Integer widths are scaled: u64 is the range 0..U64_MAX and u128 the     *)
(* range 0..U128_MAX with U128_MAX + 1 = (U64_MAX + 1)^2, so that the      *)
(* relation between the two widths is the one of the source.               *)
(*                                                                         *)
(* The token transfer is the external collaborator transfer(from, to,      *)
(* authority, amount) -> Result: it either moves the amount or fails       *)
(* (input xfer_ok), and it fails when the vault holds less than the        *)
(* amount.  The vault balance itself is not width-limited.                 *)
(***************************************************************************)
EXTENDS Integers, Sequences, FiniteSets, TLC

\* ---------------------------------------------------------------- bounds
\* largest value of the (scaled) u64 type
U64_MAX == 3
\* largest clock value explored
MaxTime == 2

\* ------------------------------------------------------------- constants
\* lib.rs:22  description.len() <= 280
MAX_DESCRIPTION_LEN == 280

U64_MOD == U64_MAX + 1
U128_MAX == (U64_MOD * U64_MOD) - 1

\* ---------------------------------------------------------------- inputs
Users == {"alice", "bob", "carol"}
\* the signers that create markets
Authorities == {"alice", "bob"}
MarketIds == {1}
EndTimes == {0, 1, 2}
U64 == 0..U64_MAX
DescLens == {MAX_DESCRIPTION_LEN, MAX_DESCRIPTION_LEN + 1}
MinBetAmounts == {0, 1, 2}

\* Option<bool>
None == <<>>
Some(x) == <<x>>
unwrap(o) == o[1]

VARIABLES
    now,              \* Clock::get()?.unix_timestamp
    market,           \* Market accounts, keyed by market_id (PDA seeds)
    bet,              \* Bet accounts, keyed by <<market_id, bettor>> (PDA seeds)
    escrow,           \* balance of each market_vault token account
    overflow_checks,  \* whether the build traps on integer overflow of `+`
    claims_ok,        \* history: number of successful claim_winnings per bet key
    paid,             \* history: tokens paid out of escrow per bet key
    events            \* the program's event log, oldest first

vars == <<now, market, bet, escrow, overflow_checks, claims_ok, paid, events>>

BetKeys == MarketIds \X Users

\* mutant: the addition wraps instead of failing
wrapping_add(a, b) == Some((a + b) % (U64_MAX + 1))

\* u64::checked_add: None when the sum leaves the u64 range
checked_add(a, b) == IF a + b > U64_MAX THEN None ELSE Some(a + b)

\* u128::checked_mul
checked_mul(a, b) == IF a * b > U128_MAX THEN None ELSE Some(a * b)

\* u128::checked_div
checked_div(a, b) == IF b = 0 THEN None ELSE Some(a \div b)

\* `x as u64` on a u128
as_u64(x) == x % U64_MOD

\* mutant: the event is not logged
emit_dropped(kind, market_id) == events

\* emit!(...): the event's type and the market it names; the other payload
\* fields are copies of the instruction's arguments and are not recorded
emit(kind, market_id) == Append(events, [kind |-> kind, market_id |-> market_id])

Init ==
    /\ now = 0
    /\ market = <<>>
    /\ bet = <<>>
    /\ escrow = [m \in MarketIds |-> 0]
    /\ overflow_checks \in BOOLEAN
    /\ claims_ok = [k \in BetKeys |-> 0]
    /\ paid = [k \in BetKeys |-> 0]
    /\ events = <<>>

\* the clock collaborator: monotonic
Tick ==
    /\ now < MaxTime
    /\ now' = now + 1
    /\ UNCHANGED <<market, bet, escrow, overflow_checks, claims_ok, paid, events>>

\* ---------------------------------------------------------- create_market
\* mutant: an end_time equal to the current time is accepted
create_market_result_end_now(market_id, desc_len, end_time, min_bet_amount) ==
    IF market_id \in DOMAIN market THEN "AccountAlreadyInUse"
    ELSE IF ~(end_time >= now) THEN "InvalidEndTime"
    ELSE IF ~(desc_len <= MAX_DESCRIPTION_LEN) THEN "DescriptionTooLong"
    ELSE IF ~(min_bet_amount > 0) THEN "InvalidBetAmount"
    ELSE "Ok"

\* Accounts constraints of CreateMarket (market is `init`: it must not exist
\* yet), then the handler's require! checks in source order
create_market_result(market_id, desc_len, end_time, min_bet_amount) ==
    IF market_id \in DOMAIN market THEN "AccountAlreadyInUse"
    ELSE IF ~(end_time > now) THEN "InvalidEndTime"
    ELSE IF ~(desc_len <= MAX_DESCRIPTION_LEN) THEN "DescriptionTooLong"
    ELSE IF ~(min_bet_amount > 0) THEN "InvalidBetAmount"
    ELSE "Ok"

\* lib.rs:26-35

NewMarket(market_id, desc_len, end_time, min_bet_amount, authority) ==
    [authority |-> authority,
     market_id |-> market_id,
     description |-> desc_len,
     end_time |-> end_time,
     min_bet_amount |-> min_bet_amount,
     total_yes_bets |-> 0,
     total_no_bets |-> 0,
     is_resolved |-> FALSE,
     winning_outcome |-> None,
     created_at |-> now]

create_market(market_id, desc_len, end_time, min_bet_amount, authority) ==
    LET res == create_market_result(market_id, desc_len, end_time, min_bet_amount) IN
    /\ IF res = "Ok"
       THEN /\ market' = (market_id :> NewMarket(market_id, desc_len, end_time,
                                                 min_bet_amount, authority)) @@ market
            /\ escrow' = [escrow EXCEPT ![market_id] = 0]
            /\ events' = emit("MarketCreated", market_id)
       ELSE UNCHANGED <<market, escrow, events>>
    /\ UNCHANGED <<now, bet, overflow_checks, claims_ok, paid>>

\* -------------------------------------------------------------- place_bet
\* the running total of the side a bet is placed on
side_total(mkt, outcome) ==
    IF outcome THEN mkt.total_yes_bets ELSE mkt.total_no_bets

\* lib.rs:58  require!(!market.is_resolved, MarketAlreadyResolved)
bet_market_open(mkt) == ~mkt.is_resolved

\* mutant: the deadline itself still accepts bets
before_or_at_deadline(mkt) == now <= mkt.end_time

\* mutant: the MarketExpired check is missing
deadline_not_enforced(mkt) == TRUE

\* lib.rs:59  require!(clock.unix_timestamp < market.end_time, MarketExpired)
before_deadline(mkt) == now < mkt.end_time

\* mutant: the BetTooSmall check is missing
bet_size_unchecked(mkt, amount) == TRUE

\* lib.rs:60  require!(amount >= market.min_bet_amount, BetTooSmall)
bet_large_enough(mkt, amount) == amount >= mkt.min_bet_amount

\* mutant: the bet account is `init_if_needed`, an existing Bet is accepted
place_bet_result_reinit(market_id, bet_outcome, amount, bettor, xfer_ok) ==
    IF market_id \notin DOMAIN market THEN "AccountNotInitialized"
    ELSE IF ~bet_market_open(market[market_id]) THEN "MarketAlreadyResolved"
    ELSE IF ~before_deadline(market[market_id]) THEN "MarketExpired"
    ELSE IF ~bet_large_enough(market[market_id], amount) THEN "BetTooSmall"
    ELSE IF ~(market[market_id].market_id = market_id) THEN "InvalidMarketId"
    ELSE IF ~xfer_ok THEN "TransferError"
    ELSE IF checked_add(side_total(market[market_id], bet_outcome), amount) = None
         THEN "Panic"
    ELSE "Ok"

\* Accounts constraints of PlaceBet (market must exist, bet is `init`),
\* then the handler's checks, transfer and checked addition in source order
place_bet_result(market_id, bet_outcome, amount, bettor, xfer_ok) ==
    IF market_id \notin DOMAIN market THEN "AccountNotInitialized"
    ELSE IF <<market_id, bettor>> \in DOMAIN bet THEN "AccountAlreadyInUse"
    ELSE IF ~bet_market_open(market[market_id]) THEN "MarketAlreadyResolved"
    ELSE IF ~before_deadline(market[market_id]) THEN "MarketExpired"
    ELSE IF ~bet_large_enough(market[market_id], amount) THEN "BetTooSmall"
    ELSE IF ~(market[market_id].market_id = market_id) THEN "InvalidMarketId"
    ELSE IF ~xfer_ok THEN "TransferError"
    ELSE IF checked_add(side_total(market[market_id], bet_outcome), amount) = None
         THEN "Panic"
    ELSE "Ok"

\* mutant: the stake is added to the other side's total
update_totals_swapped(mkt, bet_outcome, amount) ==
    IF bet_outcome
    THEN [mkt EXCEPT !.total_no_bets = unwrap(checked_add(mkt.total_no_bets, amount))]
    ELSE [mkt EXCEPT !.total_yes_bets = unwrap(checked_add(mkt.total_yes_bets, amount))]

\* lib.rs:75-79
update_totals(mkt, bet_outcome, amount) ==
    IF bet_outcome
    THEN [mkt EXCEPT !.total_yes_bets = unwrap(checked_add(mkt.total_yes_bets, amount))]
    ELSE [mkt EXCEPT !.total_no_bets = unwrap(checked_add(mkt.total_no_bets, amount))]

\* lib.rs:82-87
NewBet(market_id, bet_outcome, amount, bettor) ==
    [bettor |-> bettor,
     market_id |-> market_id,
     outcome |-> bet_outcome,
     amount |-> amount,
     timestamp |-> now,
     is_claimed |-> FALSE]

place_bet(market_id, bet_outcome, amount, bettor, xfer_ok) ==
    LET res == place_bet_result(market_id, bet_outcome, amount, bettor, xfer_ok) IN
    /\ IF res = "Ok"
       THEN /\ escrow' = [escrow EXCEPT ![market_id] = @ + amount]
            /\ market' = [market EXCEPT
                            ![market_id] = update_totals(@, bet_outcome, amount)]
            /\ bet' = (<<market_id, bettor>> :>
                          NewBet(market_id, bet_outcome, amount, bettor)) @@ bet
            /\ events' = emit("BetPlaced", market_id)
       ELSE /\ UNCHANGED <<escrow, market, bet, events>>
    /\ UNCHANGED <<now, overflow_checks, claims_ok, paid>>

\* --------------------------------------------------------- resolve_market
\* lib.rs:108-111  require!(authority.key() == market.authority, UnauthorizedResolver)
is_authority(mkt, authority) == authority = mkt.authority

\* mutant: the MarketAlreadyResolved check of resolve_market is missing
not_yet_resolved_unchecked(mkt) == TRUE

\* lib.rs:114  require!(!market.is_resolved, MarketAlreadyResolved)
not_yet_resolved(mkt) == ~mkt.is_resolved

\* mutant: the MarketNotExpired check is missing
deadline_unchecked(mkt) == TRUE

\* lib.rs:115  require!(clock.unix_timestamp >= market.end_time, MarketNotExpired)
deadline_reached(mkt) == now >= mkt.end_time

\* Accounts constraints of ResolveMarket, then the handler's checks in source order
resolve_market_result(market_id, authority) ==
    IF market_id \notin DOMAIN market THEN "AccountNotInitialized"
    ELSE IF ~is_authority(market[market_id], authority) THEN "UnauthorizedResolver"
    ELSE IF ~not_yet_resolved(market[market_id]) THEN "MarketAlreadyResolved"
    ELSE IF ~deadline_reached(market[market_id]) THEN "MarketNotExpired"
    ELSE IF ~(market[market_id].market_id = market_id) THEN "InvalidMarketId"
    ELSE "Ok"

\* mutant: the flag is set but the outcome is not recorded
resolved_without_outcome(mkt, winning_outcome) ==
    [mkt EXCEPT !.is_resolved = TRUE]

\* lib.rs:119-120
resolved(mkt, winning_outcome) ==
    [mkt EXCEPT !.is_resolved = TRUE, !.winning_outcome = Some(winning_outcome)]

resolve_market(market_id, winning_outcome, authority) ==
    LET res == resolve_market_result(market_id, authority) IN
    /\ IF res = "Ok"
       THEN /\ market' = [market EXCEPT ![market_id] = resolved(@, winning_outcome)]
            /\ events' = emit("MarketResolved", market_id)
       ELSE UNCHANGED <<market, events>>
    /\ UNCHANGED <<now, bet, escrow, overflow_checks, claims_ok, paid>>

\* --------------------------------------------------------- claim_winnings
\* lib.rs:152  `market.total_yes_bets + market.total_no_bets` on u64: traps in a
\* build with overflow checks, wraps in a build without them
total_pool(mkt) ==
    IF mkt.total_yes_bets + mkt.total_no_bets <= U64_MAX
    THEN Some(mkt.total_yes_bets + mkt.total_no_bets)
    ELSE IF overflow_checks THEN None
    ELSE Some((mkt.total_yes_bets + mkt.total_no_bets) % U64_MOD)

\* mutant: the divisor is the total of the losing side
winning_pool_swapped(mkt, winning_outcome) ==
    IF winning_outcome THEN mkt.total_no_bets ELSE mkt.total_yes_bets

\* lib.rs:153-157
winning_pool(mkt, winning_outcome) ==
    IF winning_outcome THEN mkt.total_yes_bets ELSE mkt.total_no_bets

\* lib.rs:159-161  None stands for a panic of one of the unwrap()s
winnings(amount, pool, win_pool) ==
    IF checked_mul(amount, pool) = None THEN None
    ELSE IF checked_div(unwrap(checked_mul(amount, pool)), win_pool) = None THEN None
    ELSE Some(as_u64(unwrap(checked_div(unwrap(checked_mul(amount, pool)), win_pool))))

\* the payout of a bet on the winning side; None when the computation panics
payout(mkt, b) ==
    IF total_pool(mkt) = None THEN None
    ELSE winnings(b.amount, unwrap(total_pool(mkt)),
                  winning_pool(mkt, unwrap(mkt.winning_outcome)))

\* mutant: the AlreadyClaimed check is missing
not_claimed_unchecked(b) == TRUE

\* lib.rs:140  require!(!bet.is_claimed, AlreadyClaimed)
not_claimed(b) == ~b.is_claimed

\* mutant: the comparison is inverted, the losing side is paid
bet_won_inverted(mkt, b) == b.outcome # unwrap(mkt.winning_outcome)

\* mutant: the LosingBet check is missing
bet_won_unchecked(mkt, b) == TRUE

\* lib.rs:148-149  require!(bet.outcome == winning_outcome, LosingBet)
bet_won(mkt, b) == b.outcome = unwrap(mkt.winning_outcome)

\* mutant: the result of the transfer is ignored (no `?` at lib.rs:181)
claim_winnings_result_transfer_ignored(market_id, bettor, xfer_ok) ==
    IF market_id \notin DOMAIN market THEN "AccountNotInitialized"
    ELSE IF <<market_id, bettor>> \notin DOMAIN bet THEN "AccountNotInitialized"
    ELSE IF ~market[market_id].is_resolved THEN "MarketNotResolved"
    ELSE IF ~not_claimed(bet[<<market_id, bettor>>]) THEN "AlreadyClaimed"
    ELSE IF ~(bet[<<market_id, bettor>>].market_id = market_id) THEN "InvalidMarketId"
    ELSE IF ~(bet[<<market_id, bettor>>].bettor = bettor) THEN "UnauthorizedClaimer"
    ELSE IF ~bet_won(market[market_id], bet[<<market_id, bettor>>]) THEN "LosingBet"
    ELSE IF payout(market[market_id], bet[<<market_id, bettor>>]) = None THEN "Panic"
    ELSE "Ok"

\* Accounts constraints of ClaimWinnings (market and bet must exist), the
\* handler's checks in source order, the payout arithmetic, the transfer
claim_winnings_result(market_id, bettor, xfer_ok) ==
    IF market_id \notin DOMAIN market THEN "AccountNotInitialized"
    ELSE IF <<market_id, bettor>> \notin DOMAIN bet THEN "AccountNotInitialized"
    ELSE IF ~market[market_id].is_resolved THEN "MarketNotResolved"
    ELSE IF ~not_claimed(bet[<<market_id, bettor>>]) THEN "AlreadyClaimed"
    ELSE IF ~(bet[<<market_id, bettor>>].market_id = market_id) THEN "InvalidMarketId"
    ELSE IF ~(bet[<<market_id, bettor>>].bettor = bettor) THEN "UnauthorizedClaimer"
    ELSE IF ~bet_won(market[market_id], bet[<<market_id, bettor>>]) THEN "LosingBet"
    ELSE IF payout(market[market_id], bet[<<market_id, bettor>>]) = None THEN "Panic"
    ELSE IF escrow[market_id]
              < unwrap(payout(market[market_id], bet[<<market_id, bettor>>]))
         THEN "InsufficientFunds"
    ELSE IF ~xfer_ok THEN "TransferError"
    ELSE "Ok"

claim_winnings(market_id, bettor, xfer_ok) ==
    LET res == claim_winnings_result(market_id, bettor, xfer_ok)
        k == <<market_id, bettor>> IN
    /\ IF res = "Ok"
       THEN LET w == unwrap(payout(market[market_id], bet[k])) IN
            /\ escrow' = [escrow EXCEPT ![market_id] = @ - w]
            /\ bet' = [bet EXCEPT ![k].is_claimed = TRUE]
            /\ claims_ok' = [claims_ok EXCEPT ![k] = @ + 1]
            /\ paid' = [paid EXCEPT ![k] = @ + w]
            /\ events' = emit("WinningsClaimed", market_id)
       ELSE /\ UNCHANGED <<escrow, bet, claims_ok, paid, events>>
    /\ UNCHANGED <<now, market, overflow_checks>>

Next ==
    \/ Tick
    \/ \E m \in MarketIds, d \in DescLens, e \in EndTimes, mb \in MinBetAmounts, a \in Authorities :
         create_market(m, d, e, mb, a)
    \/ \E m \in MarketIds, o \in BOOLEAN, amt \in U64, u \in Users, ok \in BOOLEAN :
         place_bet(m, o, amt, u, ok)
    \/ \E m \in MarketIds, o \in BOOLEAN, u \in Users :
         resolve_market(m, o, u)
    \/ \E m \in MarketIds, u \in Users, ok \in BOOLEAN :
         claim_winnings(m, u, ok)

Spec == Init /\ [][Next]_vars

(***************************************************************************)
(* Properties                                                              *)
(***************************************************************************)
\* the market a bet key belongs to, and the signer that owns it
MarketOf(k) == k[1]
BettorOf(k) == k[2]

\* the bet k exists and is on the losing side of its resolved market
Losing(k) ==
    /\ k \in DOMAIN bet
    /\ market[MarketOf(k)].is_resolved
    /\ market[MarketOf(k)].winning_outcome # Some(bet[k].outcome)

\* the bet k exists and is on the winning side of its resolved market
Winning(k) ==
    /\ k \in DOMAIN bet
    /\ market[MarketOf(k)].is_resolved
    /\ market[MarketOf(k)].winning_outcome = Some(bet[k].outcome)

\* the bets of market m on the given outcome
BetsOn(m, outcome) ==
    {k \in DOMAIN bet : MarketOf(k) = m /\ bet[k].outcome = outcome}

\* the bets of market m
BetsOf(m) == {k \in DOMAIN bet : MarketOf(k) = m}

RECURSIVE SumAmounts(_)
\* the sum of the stakes of a set of bets
SumAmounts(keys) ==
    IF keys = {} THEN 0
    ELSE LET k == CHOOSE x \in keys : TRUE IN bet[k].amount + SumAmounts(keys \ {k})

RECURSIVE SumPaid(_)
\* the sum of what was paid out of escrow for a set of bets
SumPaid(keys) ==
    IF keys = {} THEN 0
    ELSE LET k == CHOOSE x \in keys : TRUE IN paid[k] + SumPaid(keys \ {k})

\* the total pool of a market over the mathematical integers
TruePool(m) == market[m].total_yes_bets + market[m].total_no_bets

\* floor(bet.amount * total_pool / winning_pool) over the mathematical integers
TrueWinnings(k) ==
    (bet[k].amount * TruePool(MarketOf(k)))
        \div side_total(market[MarketOf(k)], bet[k].outcome)

\* ---- C1
C1_State ==
    \A k \in BetKeys :
        /\ claims_ok[k] <= 1
        /\ (k \in DOMAIN bet /\ bet[k].is_claimed) =>
              /\ claims_ok[k] = 1
              /\ \A ok \in BOOLEAN :
                    claim_winnings_result(MarketOf(k), BettorOf(k), ok) = "AlreadyClaimed"

C1_Step ==
    \A k \in BetKeys :
        \* a successful claim is the first one; it moves the computed winnings
        \* out of escrow once and sets is_claimed
        /\ (claims_ok'[k] # claims_ok[k]) =>
              /\ k \in DOMAIN bet /\ ~bet[k].is_claimed /\ bet'[k].is_claimed
              /\ claims_ok[k] = 0 /\ claims_ok'[k] = 1
              /\ payout(market[MarketOf(k)], bet[k]) # None
              /\ paid'[k] - paid[k] = unwrap(payout(market[MarketOf(k)], bet[k]))
              /\ escrow[MarketOf(k)] - escrow'[MarketOf(k)] = paid'[k] - paid[k]
        \* once claimed, nothing is paid for the bet again and the bet is frozen
        /\ (k \in DOMAIN bet /\ bet[k].is_claimed) =>
              /\ paid'[k] = paid[k] /\ claims_ok'[k] = claims_ok[k] /\ bet'[k] = bet[k]
              /\ \/ UNCHANGED <<escrow, bet, market, paid>>
                 \/ \A ok \in BOOLEAN : ~claim_winnings(MarketOf(k), BettorOf(k), ok)

\* C1: for every Bet at most one claim_winnings ever succeeds: the first
\* successful claim transfers the computed winnings once and sets is_claimed;
\* every later claim_winnings on that Bet returns AlreadyClaimed, moves nothing
\* out of escrow and leaves Bet and Market unchanged.
C1_ClaimAtMostOnce == []C1_State /\ [][C1_Step]_vars

\* a bet has been claimed and paid, and its owner can call claim_winnings again
C1_Witness ==
    \E k \in DOMAIN bet : bet[k].is_claimed /\ claims_ok[k] = 1 /\ paid[k] > 0

\* ---- C2
C2_State ==
    \A k \in DOMAIN bet :
        /\ bet[k].is_claimed => Winning(k)
        /\ Losing(k) =>
              /\ ~bet[k].is_claimed
              /\ paid[k] = 0
              /\ \A ok \in BOOLEAN :
                    claim_winnings_result(MarketOf(k), BettorOf(k), ok) = "LosingBet"

C2_Step ==
    \A k \in BetKeys :
        Losing(k) =>
            \/ UNCHANGED <<escrow, bet, market, paid>>
            \/ \A ok \in BOOLEAN : ~claim_winnings(MarketOf(k), BettorOf(k), ok)

\* C2: claim_winnings on a Bet whose outcome differs from its market's
\* winning_outcome returns LosingBet, transfers nothing and leaves is_claimed
\* false; hence is_claimed implies that the market is resolved and that
\* bet.outcome is the winning outcome.
C2_LosingBetNeverClaims == []C2_State /\ [][C2_Step]_vars

\* a resolved market holds a losing bet next to a winning bet that was claimed
C2_Witness ==
    \E k \in DOMAIN bet, j \in DOMAIN bet :
        Losing(k) /\ MarketOf(j) = MarketOf(k) /\ bet[j].is_claimed

\* ---- C3
C3_State ==
    \A m \in DOMAIN market :
        market[m].is_resolved =>
            resolve_market_result(m, market[m].authority) = "MarketAlreadyResolved"

C3_Step ==
    \A m \in DOMAIN market :
        market[m].is_resolved =>
            /\ m \in DOMAIN market'
            /\ market'[m].is_resolved
            /\ market'[m].winning_outcome = market[m].winning_outcome
            /\ \/ market' = market
               \/ \A o \in BOOLEAN : ~resolve_market(m, o, market[m].authority)

\* C3: resolution is irreversible and happens at most once: once is_resolved
\* is true it stays true and winning_outcome keeps its value, and a further
\* resolve_market by the authority returns MarketAlreadyResolved and leaves
\* the market unchanged.
C3_ResolutionIrreversible == []C3_State /\ [][C3_Step]_vars

\* a market resolved to YES, after which the clock has moved on
C3_Witness ==
    \E m \in DOMAIN market :
        /\ market[m].is_resolved /\ market[m].winning_outcome = Some(TRUE)
        /\ now > market[m].end_time

\* ---- C4
C4_State ==
    \A m \in DOMAIN market : \A u \in Users :
        /\ (u # market[m].authority) =>
              resolve_market_result(m, u) = "UnauthorizedResolver"
        /\ (u = market[m].authority /\ now < market[m].end_time) =>
              resolve_market_result(m, u) = "MarketNotExpired"
        /\ resolve_market_result(m, u) = "Ok" =>
              u = market[m].authority /\ now >= market[m].end_time

C4_Step ==
    \/ market' = market
    \/ \A m \in DOMAIN market : \A u \in Users, o \in BOOLEAN :
          (u # market[m].authority \/ now < market[m].end_time)
              => ~resolve_market(m, o, u)

\* C4 (amended): resolve_market succeeds only when the caller is
\* market.authority and now >= market.end_time; a call by any other identity
\* returns UnauthorizedResolver, before and after end_time; a call by the
\* authority strictly before end_time returns MarketNotExpired; in both cases
\* is_resolved and winning_outcome are unchanged.
C4_ResolveGuards == []C4_State /\ [][C4_Step]_vars

\* an unresolved market past its deadline, with stakes on it
C4_Witness ==
    \E m \in DOMAIN market :
        /\ ~market[m].is_resolved /\ now > market[m].end_time
        /\ market[m].total_yes_bets + market[m].total_no_bets > 0

\* C4 as stated: every resolve_market call made strictly before end_time
\* returns MarketNotExpired, and every call by a non-authority returns
\* UnauthorizedResolver.
C4_Original ==
    \A m \in DOMAIN market : \A u \in Users :
        /\ (now < market[m].end_time) => resolve_market_result(m, u) = "MarketNotExpired"
        /\ (u # market[m].authority) => resolve_market_result(m, u) = "UnauthorizedResolver"

\* ---- C5
\* C5: in every reachable state of every market, winning_outcome is None if
\* and only if is_resolved is false.
C5_OutcomeIffResolved ==
    \A m \in DOMAIN market :
        (market[m].winning_outcome = None) <=> ~market[m].is_resolved

\* a market resolved to NO
C5_Witness ==
    \E m \in DOMAIN market :
        market[m].is_resolved /\ market[m].winning_outcome = Some(FALSE)

\* ---- C6
\* C6: for every market total_yes_bets is the sum of the amounts of its Bets
\* on YES, total_no_bets the sum of the amounts of its Bets on NO, and their
\* sum is the sum of all accepted stakes (what was moved into escrow).
C6_TotalsAreSums ==
    \A m \in DOMAIN market :
        /\ market[m].total_yes_bets = SumAmounts(BetsOn(m, TRUE))
        /\ market[m].total_no_bets = SumAmounts(BetsOn(m, FALSE))
        /\ TruePool(m) = SumAmounts(BetsOf(m))
        /\ TruePool(m) = escrow[m] + SumPaid(BetsOf(m))

\* three bets, two of them on YES and one on NO
C6_Witness ==
    \E m \in DOMAIN market :
        /\ Cardinality(BetsOn(m, TRUE)) = 2 /\ Cardinality(BetsOn(m, FALSE)) = 1
        /\ market[m].total_yes_bets = U64_MAX

\* ---- C7
\* the stake would push the chosen side's total past the u64 range
Overflows(m, o, amt) == side_total(market[m], o) + amt > U64_MAX

C7_State ==
    \A m \in DOMAIN market :
        /\ market[m].total_yes_bets \in U64 /\ market[m].total_no_bets \in U64
        /\ \A o \in BOOLEAN, amt \in U64, u \in Users, ok \in BOOLEAN :
              Overflows(m, o, amt) => place_bet_result(m, o, amt, u, ok) # "Ok"

C7_Step ==
    \/ UNCHANGED <<market, bet, escrow>>
    \/ \A m \in DOMAIN market :
          \A o \in BOOLEAN, amt \in U64, u \in Users, ok \in BOOLEAN :
              Overflows(m, o, amt) => ~place_bet(m, o, amt, u, ok)

\* C7: a place_bet whose amount would push the chosen side's total past the
\* u64 range is rejected as a whole: the total does not wrap, no Bet is
\* created, escrow keeps its balance and the market is unchanged.
C7_OverflowRejected == []C7_State /\ [][C7_Step]_vars

\* an open market in which a bet that passes every check overflows a total
C7_Witness ==
    \E m \in DOMAIN market, o \in BOOLEAN, amt \in U64, u \in Users :
        Overflows(m, o, amt) /\ place_bet_result(m, o, amt, u, TRUE) = "Panic"

WinningBets(m) == {k \in BetsOf(m) : Winning(k)}

Totals(mkt) == <<mkt.total_yes_bets, mkt.total_no_bets>>

C10_Step ==
    \A m \in DOMAIN market :
        \/ m \in DOMAIN market' /\ Totals(market'[m]) = Totals(market[m])
        \/ /\ m \in DOMAIN market'
           /\ market'[m].total_yes_bets >= market[m].total_yes_bets
           /\ market'[m].total_no_bets >= market[m].total_no_bets
           /\ ~market[m].is_resolved
           /\ now < market[m].end_time
           /\ \E o \in BOOLEAN, amt \in U64, u \in Users :
                 /\ place_bet_result(m, o, amt, u, TRUE) = "Ok"
                 /\ place_bet(m, o, amt, u, TRUE)
           /\ \A o \in BOOLEAN, u \in Users : ~resolve_market(m, o, u)
           /\ \A u \in Users, ok \in BOOLEAN : ~claim_winnings(m, u, ok)

\* C10: a market's totals never decrease and change only in a successful
\* place_bet taken while is_resolved is false and now < end_time; from
\* resolution on both totals are frozen (claim_winnings and resolve_market
\* never alter them).
C10_TotalsOnlyGrowWhileOpen == [][C10_Step]_vars

\* a resolved market with stakes on both sides and a claim already paid
C10_Witness ==
    \E m \in DOMAIN market :
        /\ market[m].is_resolved
        /\ market[m].total_yes_bets > 0 /\ market[m].total_no_bets > 0
        /\ \E k \in BetsOf(m) : bet[k].is_claimed

\* ---- C11
C11_State ==
    /\ \A m \in DOMAIN market :
          \* place_bet and resolve_market are never both accepted in one state
          /\ \A o \in BOOLEAN, amt \in U64, u \in Users, ok \in BOOLEAN :
                place_bet_result(m, o, amt, u, ok) = "Ok" => now < market[m].end_time
          /\ \A u \in Users :
                resolve_market_result(m, u) = "Ok" => now >= market[m].end_time
          /\ market[m].is_resolved => now >= market[m].end_time
          \* at the deadline itself every bet is rejected, by the first check
          \* that fails, and the authority's resolution is accepted once
          /\ now = market[m].end_time =>
                /\ resolve_market_result(m, market[m].authority) =
                      IF market[m].is_resolved THEN "MarketAlreadyResolved" ELSE "Ok"
                /\ \A o \in BOOLEAN, amt \in U64, u \in Users, ok \in BOOLEAN :
                      place_bet_result(m, o, amt, u, ok) =
                          IF <<m, u>> \in DOMAIN bet THEN "AccountAlreadyInUse"
                          ELSE IF market[m].is_resolved THEN "MarketAlreadyResolved"
                          ELSE "MarketExpired"
    \* every bet was accepted before the deadline of its market
    /\ \A k \in DOMAIN bet : bet[k].timestamp < market[MarketOf(k)].end_time

C11_Step ==
    \A k \in BetKeys :
        (k \notin DOMAIN bet /\ k \in DOMAIN bet') =>
            /\ ~market[MarketOf(k)].is_resolved
            /\ now < market[MarketOf(k)].end_time

\* C11: place_bet and resolve_market are never both accepted at one clock
\* value of a market: place_bet needs now < end_time, resolve_market needs
\* now >= end_time. At now = end_time every place_bet is rejected: with
\* AccountAlreadyInUse for a bettor who already has a Bet on the market,
\* otherwise with MarketAlreadyResolved if the market is resolved, otherwise
\* with MarketExpired; and resolve_market by the authority is accepted if the
\* market is not resolved yet and rejected with MarketAlreadyResolved if it
\* is. Every Bet is created before the deadline, on an unresolved market.
C11_DeadlineSeparates == []C11_State /\ [][C11_Step]_vars

\* a market exactly at its deadline, with a bettor who has a Bet and a user
\* who has none
C11_Witness ==
    \E m \in DOMAIN market, u \in Users :
        /\ now = market[m].end_time
        /\ BetsOf(m) # {} /\ <<m, u>> \notin DOMAIN bet

\* the state part of C11 as stated
C11_State_Original ==
    /\ \A m \in DOMAIN market :
          /\ \A o \in BOOLEAN, amt \in U64, u \in Users, ok \in BOOLEAN :
                place_bet_result(m, o, amt, u, ok) = "Ok" => now < market[m].end_time
          /\ \A u \in Users :
                resolve_market_result(m, u) = "Ok" => now >= market[m].end_time
          /\ market[m].is_resolved => now >= market[m].end_time
          /\ now = market[m].end_time =>
                /\ ~market[m].is_resolved =>
                      resolve_market_result(m, market[m].authority) = "Ok"
                /\ \A o \in BOOLEAN, amt \in U64, u \in Users, ok \in BOOLEAN :
                      place_bet_result(m, o, amt, u, ok) = "MarketExpired"
    /\ \A k \in DOMAIN bet : bet[k].timestamp < market[MarketOf(k)].end_time

\* C11 as stated: place_bet is accepted only before end_time and
\* resolve_market only from end_time on; at now = end_time every place_bet
\* returns MarketExpired and resolve_market by the authority is accepted (on
\* a market not resolved before);
\* every Bet is created before the deadline, on an unresolved market.
C11_Original ==
    /\ []C11_State_Original
    /\ [][C11_Step]_vars

\* ---- C12
C12_State ==
    /\ \A m \in MarketIds, o \in BOOLEAN, amt \in U64, u \in Users :
          place_bet_result(m, o, amt, u, FALSE) # "Ok"
    /\ \A m \in MarketIds, u \in Users :
          /\ claim_winnings_result(m, u, FALSE) # "Ok"
          \* a claim that fails only in the transfer stays claimable
          /\ claim_winnings_result(m, u, FALSE) = "TransferError" =>
                /\ ~bet[<<m, u>>].is_claimed
                /\ claim_winnings_result(m, u, TRUE) = "Ok"

C12_Step ==
    \/ UNCHANGED <<market, bet, escrow, claims_ok, paid>>
    \/ /\ \A m \in MarketIds, o \in BOOLEAN, amt \in U64, u \in Users :
             ~place_bet(m, o, amt, u, FALSE)
       /\ \A m \in MarketIds, u \in Users : ~claim_winnings(m, u, FALSE)

\* C12: a failed transfer leaves no partial effect: place_bet with a failing
\* transfer changes no total and creates no Bet; claim_winnings with a
\* failing transfer leaves is_claimed false and the bet claimable by a later
\* call.
C12_TransferFailureAtomic == []C12_State /\ [][C12_Step]_vars

\* an unclaimed winning bet whose claim fails in the transfer
C12_Witness ==
    \E m \in MarketIds, u \in Users :
        claim_winnings_result(m, u, FALSE) = "TransferError"

\* ---- C13
\* C13: every Bet has amount >= its market's min_bet_amount > 0, so the
\* winning pool of a resolved market is >= the amount of each of its winning
\* bets, and the division of the payout never has a zero divisor.
C13_NoZeroDivisor ==
    /\ \A m \in DOMAIN market : market[m].min_bet_amount > 0
    /\ \A k \in DOMAIN bet :
          /\ bet[k].amount >= market[MarketOf(k)].min_bet_amount
          /\ Winning(k) =>
                LET wp == winning_pool(market[MarketOf(k)],
                                       unwrap(market[MarketOf(k)].winning_outcome)) IN
                /\ wp >= bet[k].amount /\ wp > 0
                /\ \A x \in 0..U128_MAX : checked_div(x, wp) # None

\* a winning bet that is the whole winning pool, with a larger losing pool
C13_Witness ==
    \E k \in DOMAIN bet :
        /\ Winning(k) /\ ~bet[k].is_claimed
        /\ side_total(market[MarketOf(k)], bet[k].outcome) = bet[k].amount
        /\ side_total(market[MarketOf(k)], ~bet[k].outcome) > bet[k].amount

\* ---- C14
C14_State ==
    \A k \in DOMAIN bet :
        \A o \in BOOLEAN, amt \in U64, ok \in BOOLEAN :
            place_bet_result(MarketOf(k), o, amt, BettorOf(k), ok) = "AccountAlreadyInUse"

C14_Step ==
    \A k \in DOMAIN bet :
        \* the stake of an existing Bet is never changed or merged
        /\ k \in DOMAIN bet'
        /\ bet'[k].amount = bet[k].amount /\ bet'[k].outcome = bet[k].outcome
        /\ bet'[k].bettor = bet[k].bettor /\ bet'[k].timestamp = bet[k].timestamp
        /\ \/ UNCHANGED <<market, bet, escrow>>
           \/ \A o \in BOOLEAN, amt \in U64, ok \in BOOLEAN :
                 ~place_bet(MarketOf(k), o, amt, BettorOf(k), ok)

\* C14: once a bettor has a Bet in a market, every later place_bet by that
\* bettor on that market fails, on either outcome and for any amount, and
\* leaves the Bet, the totals and the escrow unchanged; stakes never merge.
C14_OneBetPerBettor == []C14_State /\ [][C14_Step]_vars

\* a bettor holds a Bet in a market that is still open for betting
C14_Witness ==
    \E k \in DOMAIN bet :
        /\ ~market[MarketOf(k)].is_resolved
        /\ now < market[MarketOf(k)].end_time
        /\ bet[k].amount < U64_MAX

\* ---- C15
\* the conditions under which create_market is accepted
CreateAccepted(m, d, e, mb) ==
    e > now /\ d <= MAX_DESCRIPTION_LEN /\ mb > 0 /\ m \notin DOMAIN market

C15_State ==
    /\ \A m \in MarketIds, d \in DescLens, e \in EndTimes, mb \in MinBetAmounts :
          create_market_result(m, d, e, mb) = "Ok" <=> CreateAccepted(m, d, e, mb)
    /\ \A m \in DOMAIN market : market[m].end_time > market[m].created_at

C15_Step ==
    \A m \in MarketIds :
        \* a created market starts empty and open
        /\ (m \notin DOMAIN market /\ m \in DOMAIN market') =>
              /\ market'[m].total_yes_bets = 0 /\ market'[m].total_no_bets = 0
              /\ market'[m].is_resolved = FALSE /\ market'[m].winning_outcome = None
              /\ market'[m].created_at = now /\ market'[m].end_time > now
              /\ market'[m].min_bet_amount > 0
              /\ market'[m].description <= MAX_DESCRIPTION_LEN
              /\ \A j \in DOMAIN market : market'[j] = market[j]
        \* a rejected create_market creates and changes nothing
        /\ \/ UNCHANGED <<market, bet, escrow>>
           \/ \A d \in DescLens, e \in EndTimes, mb \in MinBetAmounts, a \in Authorities :
                 ~CreateAccepted(m, d, e, mb) => ~create_market(m, d, e, mb, a)

\* C15: create_market succeeds exactly when end_time > now, the description
\* is at most 280 long, min_bet_amount > 0 and no market has that market_id;
\* the new Market then has zero totals, is_resolved = false, winning_outcome
\* = None and end_time > created_at; otherwise no market is created and no
\* existing market is changed.
C15_CreateOrFail == []C15_State /\ [][C15_Step]_vars

\* a market created after the clock has advanced
C15_Witness ==
    \E m \in DOMAIN market : market[m].created_at > 0

\* ---- C16
\* the kinds of the events of market m, oldest first
EventsOf(m) ==
    LET mine == SelectSeq(events, LAMBDA e : e.market_id = m) IN
    [i \in 1..Len(mine) |-> mine[i].kind]

\* the number of events of the given kind in a log of kinds
CountKind(log, kind) == Cardinality({i \in 1..Len(log) : log[i] = kind})

\* MarketCreated, BetPlaced*, then nothing or MarketResolved, WinningsClaimed*
WellOrdered(log) ==
    \/ log = <<>>
    \/ /\ log[1] = "MarketCreated"
       /\ CountKind(log, "MarketCreated") = 1
       /\ CountKind(log, "MarketResolved") <= 1
       /\ \A i, j \in 1..Len(log) :
             /\ (log[i] = "MarketResolved" /\ log[j] = "BetPlaced") => j < i
             /\ (log[i] = "MarketResolved" /\ log[j] = "WinningsClaimed") => i < j
       /\ \A j \in 1..Len(log) :
             log[j] = "WinningsClaimed" => CountKind(log, "MarketResolved") = 1

C16_State ==
    \A m \in MarketIds :
        LET log == EventsOf(m) IN
        /\ WellOrdered(log)
        /\ (log # <<>>) = (m \in DOMAIN market)
        /\ m \in DOMAIN market =>
              /\ CountKind(log, "BetPlaced") = Cardinality(BetsOf(m))
              /\ (CountKind(log, "MarketResolved") = 1) = market[m].is_resolved
              /\ CountKind(log, "WinningsClaimed") =
                    Cardinality({k \in BetsOf(m) : bet[k].is_claimed})

C16_Step ==
    \* without a new event no account and no balance has changed
    \/ /\ events' = events
       /\ UNCHANGED <<market, bet, escrow, claims_ok, paid>>
    \* a new event is appended by the successful operation of its kind
    \/ \E m \in MarketIds :
         \/ /\ events' = emit("MarketCreated", m)
            /\ \E d \in DescLens, e \in EndTimes, mb \in MinBetAmounts, a \in Authorities :
                  create_market(m, d, e, mb, a) /\ create_market_result(m, d, e, mb) = "Ok"
         \/ /\ events' = emit("BetPlaced", m)
            /\ \E o \in BOOLEAN, amt \in U64, u \in Users, ok \in BOOLEAN :
                  place_bet(m, o, amt, u, ok) /\ place_bet_result(m, o, amt, u, ok) = "Ok"
         \/ /\ events' = emit("MarketResolved", m)
            /\ \E o \in BOOLEAN, a \in Users :
                  resolve_market(m, o, a) /\ resolve_market_result(m, a) = "Ok"
         \/ /\ events' = emit("WinningsClaimed", m)
            /\ \E u \in Users, ok \in BOOLEAN :
                  claim_winnings(m, u, ok) /\ claim_winnings_result(m, u, ok) = "Ok"

\* C16: per market the events, and the successful operations that emit them,
\* occur in the order MarketCreated, any number of BetPlaced, at most one
\* MarketResolved, any number of WinningsClaimed: no BetPlaced follows the
\* MarketResolved, no WinningsClaimed precedes it, every event is appended
\* by the successful operation of its kind, and a failed operation appends
\* no event.
C16_EventOrder == []C16_State /\ [][C16_Step]_vars

\* a full life cycle: created, bets, resolved, two claims
C16_Witness ==
    \E m \in MarketIds :
        LET log == EventsOf(m) IN
        /\ CountKind(log, "BetPlaced") >= 2
        /\ CountKind(log, "MarketResolved") = 1
        /\ CountKind(log, "WinningsClaimed") >= 2
        /\ log[Len(log)] = "WinningsClaimed"

\* ---- C17
C17_State ==
    \A k \in DOMAIN bet :
        (Winning(k) /\ ~bet[k].is_claimed) =>
            claim_winnings_result(MarketOf(k), BettorOf(k), TRUE) = "Ok"

C17_Step ==
    \A k \in DOMAIN bet :
        (Winning(k) /\ ~bet[k].is_claimed /\ ~bet'[k].is_claimed) =>
            payout(market'[MarketOf(k)], bet'[k]) = payout(market[MarketOf(k)], bet[k])

RECURSIVE SumOwed(_)
\* the winnings owed to a set of bets
SumOwed(keys) ==
    IF keys = {} THEN 0
    ELSE LET k == CHOOSE x \in keys : TRUE IN TrueWinnings(k) + SumOwed(keys \ {k})

\* the winning bets of a market that have not claimed yet
Unclaimed(m) == {k \in WinningBets(m) : ~bet[k].is_claimed}

\* C18: a market's escrow balance is the sum of all accepted stakes minus the
\* sum of all winnings paid, and it covers the winnings still owed to the
\* unclaimed winning bets, so no claim_winnings fails for lack of funds.
C18_EscrowSolvent ==
    \A m \in DOMAIN market :
        /\ escrow[m] = SumAmounts(BetsOf(m)) - SumPaid(BetsOf(m))
        /\ escrow[m] >= 0
        /\ market[m].is_resolved => escrow[m] >= SumOwed(Unclaimed(m))
        /\ \A u \in Users, ok \in BOOLEAN :
              claim_winnings_result(m, u, ok) # "InsufficientFunds"

\* one winning bet is paid and another winning bet of the market is still owed
C18_Witness ==
    \E m \in DOMAIN market :
        /\ market[m].is_resolved
        /\ Unclaimed(m) # {}
        /\ \E k \in WinningBets(m) : bet[k].is_claimed /\ paid[k] > 0

ResolvedToEmptySide(m) ==
    /\ market[m].is_resolved
    /\ side_total(market[m], unwrap(market[m].winning_outcome)) = 0

C20_State ==
    \A m \in DOMAIN market :
        ResolvedToEmptySide(m) =>
            /\ \A k \in BetsOf(m) : Losing(k) /\ ~bet[k].is_claimed /\ paid[k] = 0
            /\ \A u \in Users, ok \in BOOLEAN : claim_winnings_result(m, u, ok) # "Ok"
            /\ escrow[m] = TruePool(m)

C20_Step ==
    \A m \in DOMAIN market :
        \* only a successful claim of a winning bet takes value out of escrow
        /\ escrow'[m] < escrow[m] =>
              \E k \in BetsOf(m) :
                  /\ Winning(k) /\ ~bet[k].is_claimed /\ bet'[k].is_claimed
                  /\ escrow[m] - escrow'[m] = paid'[k] - paid[k]
                  /\ \E ok \in BOOLEAN : claim_winnings(m, BettorOf(k), ok)
        \* what is left when no winning bet is unclaimed stays in escrow
        /\ (market[m].is_resolved /\ Unclaimed(m) = {}) => escrow'[m] = escrow[m]

\* C20: in a market resolved to an outcome on which nothing was staked no
\* claim_winnings succeeds and the escrow stays equal to the whole pool; in
\* any market only a successful claim of a winning bet reduces the escrow,
\* so losing stakes and the flooring remainder are never withdrawn.
C20_LosingStakesStay == []C20_State /\ [][C20_Step]_vars

\* a market with stakes, resolved to the side nobody staked on, some time ago
C20_Witness ==
    \E m \in DOMAIN market :
        /\ ResolvedToEmptySide(m) /\ TruePool(m) > 0
        /\ now > market[m].end_time
====
